---- MODULE Spec2Model ----
(***************************************************************************)
(* A model of adafruit_soundboard.py: the Soundboard driver (command       *)
(* channel, reset controller, volume controller, track catalog, playback)  *)
(* running against a sound board on a line-oriented UART.                  *)
(*                                                                         *)
(* The interpreter is single-threaded: `stack` is the Python call stack of *)
(* the driver, one frame per method invocation, and every action executes  *)
(* the statements of the top frame up to its next call or return.  The     *)
(* sound board and the UART are the environment: what the board answers to *)
(* one command is chosen in the step that writes the command.              *)
(***************************************************************************)
EXTENDS Integers, Sequences, FiniteSets, TLC

VARIABLES
    self,     \* the Soundboard instance: its attributes
    uart,     \* the UART receive buffer: lines the board has sent, unread
    dev,      \* the sound board: level, last track played, track count, and
              \* whether it answers every command (healthy) or may fail
    stack,    \* the driver's call stack, innermost frame last
    ret,      \* the value the last returning frame handed to its caller
    op,       \* the public operation in progress, "idle" between operations
    result,   \* how the public operation ended, once its stack is empty
    obs       \* observation of the command channel (no effect on the driver)

vars == <<self, uart, dev, stack, ret, op, result, obs>>

(***************************************************************************)
(* Bounds of the model.                                                    *)
(***************************************************************************)
MaxTracks == 2      \* the board holds 0..MaxTracks tracks
MaxWalk == 2        \* a public volume target lies within MaxWalk steps of the board's level
MaxRx == 4          \* lines the UART buffers; what arrives beyond them is lost
MaxFaults == 1      \* times the board fails a command of an enumeration
MaxSeen == 2        \* timeouts counted in one exchange of the command channel

(***************************************************************************)
(* Program constants.                                                      *)
(***************************************************************************)
MIN_VOL == 0
MAX_VOL == 204
VOL_STEP == 2
TIME_LEN == 11
SIZE_LEN == 21
IDENT_LEN == 23
NOFILE_LEN == 6

(***************************************************************************)
(* Python values: every value a register or attribute can hold is tagged   *)
(* with its type.  bytes are sequences of one-character strings.           *)
(***************************************************************************)
PyNone == [t |-> "None"]
PyBool(b) == [t |-> "bool", v |-> b]
PyInt(n) == [t |-> "int", v |-> n]
PyBytes(s) == [t |-> "bytes", v |-> s]
PyList(s) == [t |-> "list", v |-> s]
PyTuple(a, b) == [t |-> "tuple", v |-> <<a, b>>]

PyFalse == PyBool(FALSE)
PyTrue == PyBool(TRUE)

\* Python truth value testing: `if x:` / `if not x:`
Truthy(x) ==
    CASE x.t = "None" -> FALSE
      [] x.t = "bool" -> x.v
      [] x.t = "int" -> x.v # 0
      [] x.t = "bytes" -> Len(x.v) > 0
      [] x.t = "list" -> Len(x.v) > 0
      [] x.t = "tuple" -> TRUE

(***************************************************************************)
(* bytes helpers.                                                          *)
(***************************************************************************)
TAB == "\t"
NL == "\n"
Whitespace == {" ", "\t", "\n", "\r"}
Digits == <<"0", "1", "2", "3", "4", "5", "6", "7", "8", "9">>
DigitSet == {Digits[i] : i \in 1..10}
DigitVal(c) == (CHOOSE i \in 1..10 : Digits[i] = c) - 1

StartsWith(s, p) == Len(s) >= Len(p) /\ SubSeq(s, 1, Len(p)) = p
Prefix(s, n) == SubSeq(s, 1, IF Len(s) < n THEN Len(s) ELSE n)

RECURSIVE LStrip(_)
LStrip(s) == IF s # <<>> /\ Head(s) \in Whitespace THEN LStrip(Tail(s)) ELSE s
RECURSIVE RStrip(_)
RStrip(s) ==
    IF s # <<>> /\ s[Len(s)] \in Whitespace THEN RStrip(SubSeq(s, 1, Len(s) - 1)) ELSE s
\* bytes.strip()
Strip(s) == RStrip(LStrip(s))

\* bytes.split(sep): the fields between the separators
RECURSIVE SplitAcc(_, _, _)
SplitAcc(s, sep, cur) ==
    IF s = <<>> THEN <<cur>>
    ELSE IF Head(s) = sep THEN <<cur>> \o SplitAcc(Tail(s), sep, <<>>)
    ELSE SplitAcc(Tail(s), sep, Append(cur, Head(s)))
Split(s, sep) == SplitAcc(s, sep, <<>>)

\* int(bytes): Python accepts surrounding whitespace and one sign
IsIntLit(s) ==
    LET b == Strip(s)
        d == IF b # <<>> /\ Head(b) \in {"-", "+"} THEN Tail(b) ELSE b
    IN  d # <<>> /\ \A i \in 1..Len(d) : d[i] \in DigitSet
RECURSIVE DigitsVal(_, _)
DigitsVal(d, acc) ==
    IF d = <<>> THEN acc ELSE DigitsVal(Tail(d), 10 * acc + DigitVal(Head(d)))
BytesToInt(s) ==
    LET b == Strip(s)
    IN  IF Head(b) = "-" THEN 0 - DigitsVal(Tail(b), 0)
        ELSE IF Head(b) = "+" THEN DigitsVal(Tail(b), 0)
        ELSE DigitsVal(b, 0)

\* int_to_bytes(num)
RECURSIVE IntDigits(_, _)
IntDigits(num, b) ==
    IF num = 0 THEN b ELSE IntDigits(num \div 10, <<Digits[(num % 10) + 1]>> \o b)
int_to_bytes(num) ==
    IF num = 0 THEN <<"0">>
    ELSE IF num < 0 THEN <<"-">> \o IntDigits(0 - num, <<>>)
    ELSE IntDigits(num, <<>>)


(***************************************************************************)
(* The sound board (environment).  It holds dev.n tracks, answers each     *)
(* command line with the response the wire protocol documents, steps its   *)
(* level by VOL_STEP inside [MIN_VOL, MAX_VOL] and echoes a command longer *)
(* than one character before answering it.                                 *)
(***************************************************************************)
bPLAY == <<"p", "l", "a", "y">>
bNOFILE == <<"N", "o", "F", "i", "l", "e">>
bDONE == <<"d", "o", "n", "e">>
bIDENT == <<"A", "d", "a", "f", "r", "u", "i", "t", " ", "F", "X", " ",
            "S", "o", "u", "n", "d", " ", "B", "o", "a", "r", "d">>
bGARBAGE == <<"?">>
bFAT == <<"F", "A", "T">>
bFILES == <<"F", "i", "l", "e", "s">>

TrackName(i) == <<"T", Digits[i + 1]>>
TrackSize(i) == 40 + i
TrackSecs(i) == 3 + i
TrackNames(n) == {TrackName(i) : i \in 0..(n - 1)}
TrackIndex(name) == CHOOSE i \in 0..MaxTracks : TrackName(i) = name

RECURSIVE Zeros(_)
Zeros(k) == IF k <= 0 THEN <<>> ELSE <<"0">> \o Zeros(k - 1)
\* a number right-aligned in a field of `width` digits
Pad(num, width) == Zeros(width - Len(int_to_bytes(num))) \o int_to_bytes(num)

Line(s) == s \o <<"\r", NL>>

Clamp(v) == IF v > MAX_VOL THEN MAX_VOL ELSE IF v < MIN_VOL THEN MIN_VOL ELSE v

\* what the board can do with one command line
\* an enumeration is the public operation under way
Enumerating == op.name \in {"files", "sizes", "lengths", "use_alt_get_files", "file_name"}
\* a healthy board answers every command; another fails an enumeration at
\* most MaxFaults times
FaultOk(kind) ==
    kind = "ok" \/ (~dev.healthy /\ (~Enumerating \/ dev.faults < MaxFaults))
Charge(d, kind) ==
    IF kind # "ok" /\ Enumerating THEN [d EXCEPT !.faults = @ + 1] ELSE d
ReplyKinds == {"ok", "none", "bad"}
ListKinds == {"ok", "none", "bad", "partial"}
BootKinds == {"ok", "none", "bad", "short"}
\* the level the board has after a reboot
BOOT_VOL == MAX_VOL

Echo(cmd) == IF Len(cmd) > 1 THEN <<Line(cmd)>> ELSE <<>>

RECURSIVE Listing(_, _)
Listing(i, n) ==
    IF i >= n THEN <<>>
    ELSE <<Line(TrackName(i) \o <<TAB>> \o int_to_bytes(TrackSize(i)))>> \o Listing(i + 1, n)

\* the board's answer to a well-received command: its new state and its lines
DeviceOk(d, cmd) ==
    LET c == Head(cmd)
        a == Tail(cmd)
    IN  CASE c = "L" -> [dev |-> d, out |-> Listing(0, d.n)]
          [] c = "#" ->
               IF IsIntLit(a) /\ BytesToInt(a) >= 0 /\ BytesToInt(a) < d.n
               THEN [dev |-> [d EXCEPT !.cur = BytesToInt(a)],
                     out |-> <<Line(bPLAY \o <<TAB>> \o int_to_bytes(BytesToInt(a))
                                    \o <<TAB>> \o TrackName(BytesToInt(a)))>>]
               ELSE [dev |-> d, out |-> <<Line(bNOFILE)>>]
          [] c = "P" ->
               IF a \in TrackNames(d.n)
               THEN [dev |-> [d EXCEPT !.cur = TrackIndex(a)],
                     out |-> <<Line(bPLAY \o <<TAB>> \o a)>>]
               ELSE [dev |-> d, out |-> <<Line(bNOFILE)>>]
          [] c = "+" ->
               LET v == Clamp(d.vol + VOL_STEP)
               IN  [dev |-> [d EXCEPT !.vol = v], out |-> <<Line(int_to_bytes(v))>>]
          [] c = "-" ->
               LET v == Clamp(d.vol - VOL_STEP)
               IN  [dev |-> [d EXCEPT !.vol = v], out |-> <<Line(int_to_bytes(v))>>]
          [] c = "=" -> [dev |-> d, out |-> <<Line(<<"=">>)>>]
          [] c = ">" -> [dev |-> d, out |-> <<Line(<<">">>)>>]
          [] c = "q" -> [dev |-> d, out |-> <<Line(<<"q">>), Line(bDONE)>>]
          [] c = "t" ->
               LET secs == IF d.cur >= 0 THEN TrackSecs(d.cur) ELSE 0
               IN  [dev |-> d, out |-> <<Line(Pad(0, 5) \o <<":">> \o Pad(secs, 5))>>]
          [] c = "s" ->
               LET size == IF d.cur >= 0 THEN TrackSize(d.cur) ELSE 0
               IN  [dev |-> d, out |-> <<Line(Pad(size, 10) \o <<"/">> \o Pad(size, 10))>>]
          [] OTHER -> [dev |-> d, out |-> <<Line(bGARBAGE)>>]

\* one exchange: the board answers (ok), stays silent (none), answers with a
\* line that is no response of the protocol (bad), or lists only a part (partial)
Device(d, cmd, kind) ==
    CASE kind = "ok" ->
           LET r == DeviceOk(d, cmd) IN [dev |-> r.dev, out |-> Echo(cmd) \o r.out]
      [] kind = "none" -> [dev |-> d, out |-> <<>>]
      [] kind = "bad" -> [dev |-> d, out |-> Echo(cmd) \o <<Line(bGARBAGE)>>]
      [] kind = "partial" -> [dev |-> d, out |-> Listing(0, d.n - 1)]

\* the board after a pulse on RST: it reboots and prints its banner
Banner(kind) ==
    CASE kind = "ok" -> <<Line(<<>>), Line(bIDENT), Line(bFAT), Line(bFILES)>>
      [] kind = "none" -> <<>>
      [] kind = "bad" -> <<Line(<<>>), Line(bGARBAGE), Line(bFAT), Line(bFILES)>>
      [] kind = "short" -> <<Line(<<>>), Line(bIDENT)>>
Reboot(d, kind) ==
    IF kind = "none" THEN d ELSE [d EXCEPT !.vol = BOOT_VOL, !.cur = -1]

(***************************************************************************)
(* The UART: readline() takes the oldest buffered line or times out and    *)
(* gives None; read() until None empties the buffer.                       *)
(***************************************************************************)
readline(rx) == IF rx = <<>> THEN PyNone ELSE PyBytes(Head(rx))
after_readline(rx) == IF rx = <<>> THEN rx ELSE Tail(rx)
keep_uart_input(rx) == rx
flush_uart_input(rx) == <<>>
\* the board sends `out`
deliver(rx, out) == Prefix(rx \o out, MaxRx)

(***************************************************************************)
(* The call stack.                                                         *)
(***************************************************************************)
Top == stack[Len(stack)]
AtPc(fn, pc) == stack # <<>> /\ Top.fn = fn /\ Top.pc = pc
\* the top frame moves on
Goto(f) == [stack EXCEPT ![Len(stack)] = f]
\* the top frame moves on and calls
CallFrom(f, callee) == Append(Goto(f), callee)
PyExc(name) == [t |-> "exc", v |-> name]
\* the top frame moves on without calling
Jump(f) == stack' = Goto(f) /\ UNCHANGED <<ret, result>>
\* the top frame moves on and calls `callee`
Invoke(f, callee) == stack' = CallFrom(f, callee) /\ UNCHANGED <<ret, result>>
\* `return v`: the frame hands v to its caller, or ends the public operation
Return(v) ==
    /\ stack' = SubSeq(stack, 1, Len(stack) - 1)
    /\ ret' = v
    /\ result' = IF Len(stack) = 1 THEN [how |-> "return", v |-> v] ELSE result
\* `raise`: no frame of the driver handles the exception (vol_up and vol_down
\* re-raise it, file_name handles its own IndexError only): the stack unwinds
Raise(exc) ==
    /\ stack' = <<>>
    /\ ret' = ret
    /\ result' = [how |-> "raise", v |-> PyExc(exc)]

Frame(fn, a) == [fn |-> fn, pc |-> "start", a |-> a]
SendFrame(cmd, check) == Frame("send_simple", [cmd |-> cmd, check |-> check])
ResetFrame == Frame("reset", PyNone)

\* what is observed of the command channel and of the reset controller:
\*   sent, resets: writes and reset() calls of the current outermost _send_simple
\*   reset: the last reset() of the operation: the state it started in, whether
\*          it touched the RST line and the UART, and how it ended
\*   faulty: the board has left a command of the operation unanswered, or
\*          answered it with a line that is no response of the protocol
NoReset == [out |-> "none"]
\*   timeouts, answered, garbled: what the board did in the exchanges of that
\*          _send_simple, the banner of its reset() among them: reads that
\*          timed out (counted up to MaxSeen), an answer of the protocol, a
\*          line or banner that is none
\*   out: how that _send_simple ended: with a response ("answered") or with
\*          the failure value ("failed")
\*   drained: the lines the last write of that _send_simple found buffered
\*          and dropped
\*   fresh: the line the last write took as its response was the line the
\*          board sent as its response to it
NoSend == [sent |-> 0, resets |-> 0, timeouts |-> 0, answered |-> FALSE,
           garbled |-> FALSE, out |-> "none", drained |-> 0, fresh |-> TRUE]
\*   level: the board's level when the probe by playback started
\*   track: _cur_track when play() started
NoObs == NoSend @@ [reset |-> NoReset, faulty |-> FALSE, level |-> -1, track |-> PyNone]
Seen(o, kind) ==
    [o EXCEPT !.faulty = @ \/ kind # "ok",
              !.timeouts = IF kind = "none" /\ @ < MaxSeen THEN @ + 1 ELSE @,
              !.answered = @ \/ kind = "ok",
              !.garbled = @ \/ kind \notin {"ok", "none"}]
Idle == [name |-> "idle"]

\* the caller takes the outcome of the public operation
Finish ==
    /\ stack = <<>>
    /\ op # Idle
    /\ op' = Idle
    /\ result' = [how |-> "none"]
    /\ ret' = PyNone
    /\ obs' = NoObs
    /\ UNCHANGED <<self, uart, dev, stack>>

(***************************************************************************)
(* CommandChannel: _send_simple(cmd, check).                               *)
(***************************************************************************)
\* `if self._reset_attempted: return False`, negated: the reset may be tried
retry_unbounded(s) == TRUE
retry_allowed(s) == ~s.reset_attempted

\* `self._reset_attempted = True  # We already sent a command successfully`
mark_cleared(s) == [s EXCEPT !.reset_attempted = FALSE]
mark_sent(s) == [s EXCEPT !.reset_attempted = TRUE]

\* the value returned for a response `msg` under `check`
interpret(cmd, check, msg) ==
    CASE check.t = "None" -> PyBytes(msg)
      [] check.t = "bytes" -> PyBool(StartsWith(msg, check.v))
      [] OTHER -> IF Truthy(check) THEN PyBool(StartsWith(msg, Prefix(cmd, 1))) ELSE PyNone

\* flush, write, the echo read, the response read
send_simple ==
    /\ AtPc("send_simple", "start")
    /\ \E kind \in ReplyKinds :
         LET f == Top
             cmd == Strip(f.a.cmd)
             r == Device(dev, cmd, kind)
             rx1 == deliver(flush_uart_input(uart), r.out)
             rx2 == IF Len(cmd) > 1 THEN after_readline(rx1) ELSE rx1
             msg == readline(rx2)
             kept == flush_uart_input(uart)
             o == [Seen(obs, kind) EXCEPT
                       !.sent = @ + 1,
                       !.drained = Len(uart) - Len(kept),
                       !.fresh = \/ msg.t = "None"
                                 \/ Len(rx1) - Len(rx2) = Len(kept) + Len(Echo(cmd))]
         IN  /\ FaultOk(kind)
             /\ dev' = Charge(r.dev, kind)
             /\ uart' = after_readline(rx2)
             /\ IF msg.t = "None"
                THEN \* msg.strip() raises AttributeError
                     IF retry_allowed(self)
                     THEN /\ self' = [self EXCEPT !.reset_attempted = TRUE]
                          /\ Invoke([f EXCEPT !.pc = "retry"], ResetFrame)
                          /\ obs' = [o EXCEPT !.resets = @ + 1]
                     ELSE /\ Return(PyFalse)
                          /\ obs' = [o EXCEPT !.out = "failed"]
                          /\ UNCHANGED self
                ELSE /\ self' = IF f.a.check.t = "None" THEN self ELSE mark_sent(self)
                     /\ Return(interpret(cmd, f.a.check, Strip(msg.v)))
                     /\ obs' = [o EXCEPT !.out = "answered"]
    /\ UNCHANGED <<op>>

\* `return self._send_simple(cmd, check)` after reset() came back
send_simple_retry ==
    /\ AtPc("send_simple", "retry")
    /\ Invoke([Top EXCEPT !.pc = "tail"], SendFrame(Strip(Top.a.cmd), Top.a.check))
    /\ UNCHANGED <<self, uart, dev, op, obs>>

send_simple_tail ==
    /\ AtPc("send_simple", "tail")
    /\ Return(ret)
    /\ UNCHANGED <<self, uart, dev, op, obs>>

\* a caller other than _send_simple itself sends a command
InSend == \E i \in 1..Len(stack) : stack[i].fn = "send_simple"
CallSend(f, cmd, check) ==
    /\ Invoke(f, SendFrame(cmd, check))
    /\ obs' = IF InSend THEN obs ELSE NoSend @@ obs

(***************************************************************************)
(* ResetController: reset().                                               *)
(***************************************************************************)
\* `if self._sb_rst is None: return False`, negated
reset_always(s) == TRUE
reset_enabled(s) == s.sb_rst

\* the identity check on the second banner line
is_sound_board(msg) == Prefix(msg, IDENT_LEN) = bIDENT

\* `self._cur_track = None`
keep_track(s) == s
clear_track(s) == [s EXCEPT !.cur_track = PyNone]

SetVolFrame(new_vol) == Frame("vol_set", [new_vol |-> new_vol])

\* the state reset() starts in, as far as it may change it
Snapshot == [self |-> self, uart |-> uart, dev |-> dev]
Started(io) == [out |-> "running", pre |-> Snapshot, io |-> io]
Ended(o, out) == [o EXCEPT !.reset.out = out]

reset ==
    /\ AtPc("reset", "start")
    /\ IF ~reset_enabled(self)
       THEN /\ Return(PyFalse)
            /\ obs' = [obs EXCEPT !.reset = [Started(FALSE) EXCEPT !.out = "false"]]
            /\ UNCHANGED <<uart, dev>>
       ELSE \E kind \in BootKinds :
              LET o == [Seen(obs, kind) EXCEPT !.reset = Started(TRUE)]
                  rx0 == deliver(uart, Banner(kind))
                  m1 == readline(rx0)
                  rx1 == after_readline(rx0)
                  m2 == readline(rx1)
                  rx2 == after_readline(rx1)
                  m3 == readline(rx2)
                  rx3 == after_readline(rx2)
                  m4 == readline(rx3)
                  rx4 == after_readline(rx3)
              IN  /\ FaultOk(kind)
                  /\ dev' = Charge(Reboot(dev, kind), kind)
                  /\ IF m1.t = "None"
                     THEN uart' = rx1 /\ Raise("AttributeError") /\ obs' = Ended(o, "raise")
                     ELSE IF m2.t = "None"
                     THEN uart' = rx2 /\ Raise("AttributeError") /\ obs' = Ended(o, "raise")
                     ELSE IF ~is_sound_board(Strip(m2.v))
                     THEN uart' = rx2 /\ Return(PyFalse) /\ obs' = Ended(o, "false")
                     ELSE IF m3.t = "None"
                     THEN uart' = rx3 /\ Raise("AttributeError") /\ obs' = Ended(o, "raise")
                     ELSE IF m4.t = "None"
                     THEN uart' = rx4 /\ Raise("AttributeError") /\ obs' = Ended(o, "raise")
                     ELSE /\ uart' = rx4
                          /\ obs' = o
                          /\ Invoke([Top EXCEPT !.pc = "volume"], SetVolFrame(self.cur_vol))
    /\ UNCHANGED <<self, op>>

\* after `self.vol = self._cur_vol`
reset_done ==
    /\ AtPc("reset", "volume")
    /\ self' = clear_track(self)
    /\ Return(PyTrue)
    /\ obs' = Ended(obs, "true")
    /\ UNCHANGED <<uart, dev, op>>

(***************************************************************************)
(* VolumeController: the vol property, vol_up(vol), vol_down(vol).         *)
(***************************************************************************)
\* int(x) of what _send_simple returned: int(False) is 0, int(b'12') is 12
CanInt(x) == x.t = "bool" \/ x.t = "int" \/ (x.t = "bytes" /\ IsIntLit(x.v))
ToInt(x) ==
    CASE x.t = "bool" -> (IF x.v THEN 1 ELSE 0)
      [] x.t = "int" -> x.v
      [] x.t = "bytes" -> BytesToInt(x.v)

VolFrame(fn, vol) == Frame(fn, [vol |-> vol])

\* vol (getter)
vol_get ==
    /\ AtPc("vol_get", "start")
    /\ IF self.cur_vol.t = "None"
       THEN Invoke([Top EXCEPT !.pc = "seeded"], VolFrame("vol_down", PyNone))
       ELSE Return(self.cur_vol)
    /\ UNCHANGED <<self, uart, dev, op, obs>>

vol_get_seeded ==
    /\ AtPc("vol_get", "seeded")
    /\ Return(self.cur_vol)
    /\ UNCHANGED <<self, uart, dev, op, obs>>

\* vol (setter): `if new_vol is None: return`, then `new_vol > self.vol`
vol_set ==
    /\ AtPc("vol_set", "start")
    /\ IF Top.a.new_vol.t # "int"
       THEN Return(PyNone)
       ELSE Invoke([Top EXCEPT !.pc = "cmp_up"], Frame("vol_get", PyNone))
    /\ UNCHANGED <<self, uart, dev, op, obs>>

\* `elif new_vol > self.vol: self.vol_up(new_vol)`, else `new_vol < self.vol`
vol_set_cmp_up ==
    /\ AtPc("vol_set", "cmp_up")
    /\ IF Top.a.new_vol.v > ret.v
       THEN Invoke([Top EXCEPT !.pc = "done"], VolFrame("vol_up", Top.a.new_vol))
       ELSE Invoke([Top EXCEPT !.pc = "cmp_down"], Frame("vol_get", PyNone))
    /\ UNCHANGED <<self, uart, dev, op, obs>>

\* `elif new_vol < self.vol: self.vol_down(new_vol)`
vol_set_cmp_down ==
    /\ AtPc("vol_set", "cmp_down")
    /\ IF Top.a.new_vol.v < ret.v
       THEN Invoke([Top EXCEPT !.pc = "done"], VolFrame("vol_down", Top.a.new_vol))
       ELSE Return(PyNone)
    /\ UNCHANGED <<self, uart, dev, op, obs>>

vol_set_done ==
    /\ AtPc("vol_set", "done")
    /\ Return(PyNone)
    /\ UNCHANGED <<self, uart, dev, op, obs>>

\* the loop conditions `while vol > self._cur_vol` and `while vol < self._cur_vol`
vol_up_continues(vol, cur) == vol > cur
vol_down_continues(vol, cur) == vol < cur

\* vol_up(vol): one step when vol is None, else the clamp, the sentinel
\* MIN_VOL - 1 and the first test of the loop
vol_up ==
    /\ AtPc("vol_up", "start")
    /\ IF Top.a.vol.t = "None"
       THEN /\ CallSend([Top EXCEPT !.pc = "single"], <<"+">>, PyNone)
            /\ UNCHANGED self
       ELSE LET vol == IF Top.a.vol.v > MAX_VOL THEN MAX_VOL ELSE Top.a.vol.v
                f == [Top EXCEPT !.a.vol = PyInt(vol)]
            IN  /\ self' = [self EXCEPT !.cur_vol = PyInt(MIN_VOL - 1)]
                /\ IF vol_up_continues(vol, MIN_VOL - 1)
                   THEN CallSend([f EXCEPT !.pc = "step"], <<"+">>, PyNone)
                   ELSE Return(PyInt(MIN_VOL - 1)) /\ obs' = obs
    /\ UNCHANGED <<uart, dev, op>>

\* `self._cur_vol = int(self._send_simple(b'+'))` and `return self._cur_vol`
vol_up_single ==
    /\ AtPc("vol_up", "single")
    /\ IF CanInt(ret)
       THEN /\ self' = [self EXCEPT !.cur_vol = PyInt(ToInt(ret))]
            /\ Return(PyInt(ToInt(ret)))
       ELSE /\ Raise("ValueError")
            /\ UNCHANGED self
    /\ UNCHANGED <<uart, dev, op, obs>>

\* the body of the loop took its answer: the next test of the loop
vol_up_step ==
    /\ AtPc("vol_up", "step")
    /\ IF CanInt(ret)
       THEN /\ self' = [self EXCEPT !.cur_vol = PyInt(ToInt(ret))]
            /\ IF vol_up_continues(Top.a.vol.v, ToInt(ret))
               THEN CallSend(Top, <<"+">>, PyNone)
               ELSE Return(PyInt(ToInt(ret))) /\ obs' = obs
       ELSE /\ Raise("ValueError")
            /\ UNCHANGED <<self, obs>>
    /\ UNCHANGED <<uart, dev, op>>

\* vol_down(vol): the sentinel MAX_VOL + 1 is set before the clamp
vol_down ==
    /\ AtPc("vol_down", "start")
    /\ IF Top.a.vol.t = "None"
       THEN /\ CallSend([Top EXCEPT !.pc = "single"], <<"-">>, PyNone)
            /\ UNCHANGED self
       ELSE LET vol == IF Top.a.vol.v < MIN_VOL THEN MIN_VOL ELSE Top.a.vol.v
                f == [Top EXCEPT !.a.vol = PyInt(vol)]
            IN  /\ self' = [self EXCEPT !.cur_vol = PyInt(MAX_VOL + 1)]
                /\ IF vol_down_continues(vol, MAX_VOL + 1)
                   THEN CallSend([f EXCEPT !.pc = "step"], <<"-">>, PyNone)
                   ELSE Return(PyInt(MAX_VOL + 1)) /\ obs' = obs
    /\ UNCHANGED <<uart, dev, op>>

vol_down_single ==
    /\ AtPc("vol_down", "single")
    /\ IF CanInt(ret)
       THEN /\ self' = [self EXCEPT !.cur_vol = PyInt(ToInt(ret))]
            /\ Return(PyInt(ToInt(ret)))
       ELSE /\ Raise("ValueError")
            /\ UNCHANGED self
    /\ UNCHANGED <<uart, dev, op, obs>>

vol_down_step ==
    /\ AtPc("vol_down", "step")
    /\ IF CanInt(ret)
       THEN /\ self' = [self EXCEPT !.cur_vol = PyInt(ToInt(ret))]
            /\ IF vol_down_continues(Top.a.vol.v, ToInt(ret))
               THEN CallSend(Top, <<"-">>, PyNone)
               ELSE Return(PyInt(ToInt(ret))) /\ obs' = obs
       ELSE /\ Raise("ValueError")
            /\ UNCHANGED <<self, obs>>
    /\ UNCHANGED <<uart, dev, op>>

(***************************************************************************)
(* PlaybackController: play, play_now, stop, pause, unpause, track_time,   *)
(* track_size.                                                             *)
(***************************************************************************)
track_num_missing(s, file_name) == PyFalse
\* track_num(file_name): the index, or False for a name the catalog lacks
track_num(s, file_name) ==
    IF file_name \in DOMAIN s.track THEN PyInt(s.track[file_name]) ELSE PyFalse

\* play(track): the command and the number to record
play_cmd(track) ==
    IF track.t = "int" THEN <<"#">> \o int_to_bytes(track.v) ELSE <<"P">> \o track.v
play_num_next(s, track) == IF track.t = "int" THEN PyInt(track.v + 1) ELSE PyFalse
play_num(s, track) == IF track.t = "int" THEN track ELSE track_num(s, track.v)

play ==
    /\ AtPc("play", "start")
    /\ Invoke([Top EXCEPT !.pc = "sent"], SendFrame(play_cmd(Top.a.track), PyBytes(bPLAY)))
    /\ obs' = [NoSend @@ obs EXCEPT !.track = self.cur_track]
    /\ UNCHANGED <<self, uart, dev, op>>

play_sent ==
    /\ AtPc("play", "sent")
    /\ IF Truthy(ret)
       THEN /\ self' = [self EXCEPT !.cur_track = play_num(self, Top.a.track)]
            /\ Return(PyTrue)
       ELSE /\ Return(PyFalse)
            /\ UNCHANGED self
    /\ UNCHANGED <<uart, dev, op, obs>>

play_now ==
    /\ AtPc("play_now", "start")
    /\ Invoke([Top EXCEPT !.pc = "stopped"], Frame("stop", PyNone))
    /\ UNCHANGED <<self, uart, dev, op, obs>>

play_now_stopped ==
    /\ AtPc("play_now", "stopped")
    /\ Invoke([Top EXCEPT !.pc = "played"], Frame("play", [track |-> Top.a.track]))
    /\ UNCHANGED <<self, uart, dev, op, obs>>

play_now_played ==
    /\ AtPc("play_now", "played")
    /\ Return(IF Truthy(ret) THEN PyTrue ELSE PyFalse)
    /\ UNCHANGED <<self, uart, dev, op, obs>>

stop ==
    /\ AtPc("stop", "start")
    /\ CallSend([Top EXCEPT !.pc = "sent"], <<"q">>, PyTrue)
    /\ UNCHANGED <<self, uart, dev, op>>

\* `return False`, or the read of the "done" line and the end of the body
stop_sent ==
    /\ AtPc("stop", "sent")
    /\ IF ~Truthy(ret)
       THEN Return(PyFalse) /\ uart' = uart
       ELSE Return(PyNone) /\ uart' = after_readline(uart)
    /\ UNCHANGED <<self, dev, op, obs>>

\* pause() and unpause(): `return self._send_simple(b'=', True)`
pause ==
    /\ AtPc("pause", "start")
    /\ CallSend([Top EXCEPT !.pc = "sent"], <<"=">>, PyTrue)
    /\ UNCHANGED <<self, uart, dev, op>>

unpause ==
    /\ AtPc("unpause", "start")
    /\ CallSend([Top EXCEPT !.pc = "sent"], <<">">>, PyTrue)
    /\ UNCHANGED <<self, uart, dev, op>>

pause_sent ==
    /\ stack # <<>>
    /\ Top.fn \in {"pause", "unpause"}
    /\ Top.pc = "sent"
    /\ Return(ret)
    /\ UNCHANGED <<self, uart, dev, op, obs>>

\* the parse of "current:total" (track_time) and "remaining/total" (track_size)
parse_pair(msg, width, sep) ==
    IF ~Truthy(msg) THEN [ok |-> TRUE, v |-> PyTuple(-1, -1)]
    ELSE IF Len(msg.v) # width THEN [ok |-> TRUE, v |-> PyFalse]
    ELSE LET parts == Split(msg.v, sep)
         IN  IF Len(parts) # 2 \/ ~IsIntLit(parts[1]) \/ ~IsIntLit(parts[2])
             THEN [ok |-> FALSE, v |-> "ValueError"]
             ELSE [ok |-> TRUE, v |-> PyTuple(BytesToInt(parts[1]), BytesToInt(parts[2]))]

track_time ==
    /\ AtPc("track_time", "start")
    /\ CallSend([Top EXCEPT !.pc = "sent"], <<"t">>, PyNone)
    /\ UNCHANGED <<self, uart, dev, op>>

track_time_sent ==
    /\ AtPc("track_time", "sent")
    /\ LET r == parse_pair(ret, TIME_LEN, ":")
       IN  IF r.ok THEN Return(r.v) ELSE Raise(r.v)
    /\ UNCHANGED <<self, uart, dev, op, obs>>

track_size ==
    /\ AtPc("track_size", "start")
    /\ CallSend([Top EXCEPT !.pc = "sent"], <<"s">>, PyNone)
    /\ UNCHANGED <<self, uart, dev, op>>

track_size_sent ==
    /\ AtPc("track_size", "sent")
    /\ LET r == parse_pair(ret, SIZE_LEN, "/")
       IN  IF r.ok THEN Return(r.v) ELSE Raise(r.v)
    /\ UNCHANGED <<self, uart, dev, op, obs>>

(***************************************************************************)
(* TrackCatalog: files, sizes, lengths, _get_files, _get_files_alt,        *)
(* file_name, track_num, use_alt_get_files.                                *)
(***************************************************************************)
\* the loop of _get_files over the lines the board listed: each line is
\* stripped, split at the tab and appended; a line that does not split in
\* two, or whose size is no number, raises ValueError where it stands
RECURSIVE list_lines(_, _, _)
list_lines(s, rx, i) ==
    IF rx = <<>> THEN [self |-> s, rx |-> rx, ok |-> TRUE]
    ELSE LET parts == Split(Strip(Head(rx)), TAB)
         IN  IF Len(parts) # 2 THEN [self |-> s, rx |-> Tail(rx), ok |-> FALSE]
             ELSE LET s1 == [s EXCEPT !.files = PyList(Append(@.v, parts[1]))]
                  IN  IF ~IsIntLit(parts[2]) THEN [self |-> s1, rx |-> Tail(rx), ok |-> FALSE]
                      ELSE list_lines(
                             [s1 EXCEPT !.sizes = PyList(Append(@.v, BytesToInt(parts[2]))),
                                        !.track = (parts[1] :> i) @@ @],
                             Tail(rx), i + 1)

\* _get_files(): the list command and the lines that follow it
get_files ==
    /\ AtPc("get_files", "start")
    /\ \E kind \in ListKinds :
         LET r == Device(dev, <<"L">>, kind)
             s0 == [self EXCEPT !.files = PyList(<<>>), !.sizes = PyList(<<>>)]
             got == list_lines(s0, deliver(flush_uart_input(uart), r.out), 0)
         IN  /\ FaultOk(kind)
             /\ dev' = Charge(r.dev, kind)
             /\ self' = got.self
             /\ uart' = got.rx
             /\ obs' = Seen(obs, kind)
             /\ IF got.ok THEN Return(PyNone) ELSE Raise("ValueError")
    /\ UNCHANGED <<op>>

\* _get_files_alt(): `vol = self.vol`
get_files_alt ==
    /\ AtPc("get_files_alt", "start")
    /\ Invoke([Top EXCEPT !.pc = "init"], Frame("vol_get", PyNone))
    /\ obs' = [obs EXCEPT !.level = dev.vol]
    /\ UNCHANGED <<self, uart, dev, op>>

\* the three lists are emptied, `i = 0`, and the loop starts with stop()
get_files_alt_init ==
    /\ AtPc("get_files_alt", "init")
    /\ self' = [self EXCEPT !.files = PyList(<<>>), !.lengths = PyList(<<>>),
                            !.sizes = PyList(<<>>)]
    /\ Invoke([Top EXCEPT !.pc = "stopped",
                                     !.a = [vol |-> ret, i |-> 0, plays |-> <<>>]],
                         Frame("stop", PyNone))
    /\ UNCHANGED <<uart, dev, op, obs>>

\* `self.vol = 0`
get_files_alt_stopped ==
    /\ AtPc("get_files_alt", "stopped")
    /\ Invoke([Top EXCEPT !.pc = "muted"], SetVolFrame(PyInt(0)))
    /\ UNCHANGED <<self, uart, dev, op, obs>>

\* `msg = self._send_simple(b'#' + int_to_bytes(i))`
get_files_alt_muted ==
    /\ AtPc("get_files_alt", "muted")
    /\ CallSend([Top EXCEPT !.pc = "probed", !.a.plays = Append(@, Top.a.i)],
                <<"#">> \o int_to_bytes(Top.a.i), PyNone)
    /\ UNCHANGED <<self, uart, dev, op>>

\* `if msg[:6] == b'NoFile': break`
is_nofile(msg) == Prefix(msg, NOFILE_LEN) = bNOFILE

\* the response is inspected: the end of the loop, or a track is registered
\* and its time is asked for
get_files_alt_probed ==
    /\ AtPc("get_files_alt", "probed")
    /\ IF ret.t # "bytes"
       THEN \* False[:6]
            /\ Raise("TypeError")
            /\ UNCHANGED self
       ELSE IF is_nofile(ret.v)
       THEN /\ Invoke([Top EXCEPT !.pc = "restored"], SetVolFrame(Top.a.vol))
            /\ UNCHANGED self
       ELSE LET parts == Split(ret.v, TAB)
            IN  IF Len(parts) # 3
                THEN /\ Raise("ValueError")
                     /\ UNCHANGED self
                ELSE /\ self' = [self EXCEPT !.files = PyList(Append(@.v, parts[3])),
                                             !.track = (parts[3] :> Top.a.i) @@ @]
                     /\ Invoke([Top EXCEPT !.pc = "timed"],
                                          Frame("track_time", PyNone))
    /\ UNCHANGED <<uart, dev, op, obs>>

\* `if sec: append(sec[1]) else: append(0)`
second_or_zero(x) == IF Truthy(x) THEN x.v[2] ELSE 0

get_files_alt_timed ==
    /\ AtPc("get_files_alt", "timed")
    /\ self' = [self EXCEPT !.lengths = PyList(Append(@.v, second_or_zero(ret)))]
    /\ Invoke([Top EXCEPT !.pc = "sized"], Frame("track_size", PyNone))
    /\ UNCHANGED <<uart, dev, op, obs>>

\* the size is appended, `i += 1`, and the loop goes round with stop()
get_files_alt_sized ==
    /\ AtPc("get_files_alt", "sized")
    /\ self' = [self EXCEPT !.sizes = PyList(Append(@.v, second_or_zero(ret)))]
    /\ Invoke([Top EXCEPT !.pc = "stopped", !.a.i = @ + 1], Frame("stop", PyNone))
    /\ UNCHANGED <<uart, dev, op, obs>>

\* after `self.vol = vol`
get_files_alt_restored ==
    /\ AtPc("get_files_alt", "restored")
    /\ Return(PyNone)
    /\ UNCHANGED <<self, uart, dev, op, obs>>

\* the properties files, sizes and lengths: enumerate when the list is None
catalog_getter(fn, value, loader) ==
    /\ AtPc(fn, "start")
    /\ IF value.t = "None"
       THEN Invoke([Top EXCEPT !.pc = "loaded"], Frame(loader, PyNone))
       ELSE Return(value)
    /\ UNCHANGED <<self, uart, dev, op, obs>>

files == catalog_getter("files", self.files, self.get_files)
sizes == catalog_getter("sizes", self.sizes, self.get_files)
lengths == catalog_getter("lengths", self.lengths, "get_files_alt")

catalog_loaded ==
    /\ stack # <<>>
    /\ Top.fn \in {"files", "sizes", "lengths"}
    /\ Top.pc = "loaded"
    /\ Return(CASE Top.fn = "files" -> self.files
                               [] Top.fn = "sizes" -> self.sizes
                               [] Top.fn = "lengths" -> self.lengths)
    /\ UNCHANGED <<self, uart, dev, op, obs>>

\* `del self.files`
del_files(s) == [s EXCEPT !.files = PyNone]

\* use_alt_get_files(now)
use_alt_get_files ==
    /\ AtPc("use_alt_get_files", "start")
    /\ self' = del_files([self EXCEPT !.get_files = "get_files_alt"])
    /\ IF Top.a.now
       THEN Invoke([Top EXCEPT !.pc = "loaded"], Frame("get_files_alt", PyNone))
       ELSE Return(PyNone)
    /\ UNCHANGED <<uart, dev, op, obs>>

use_alt_get_files_loaded ==
    /\ AtPc("use_alt_get_files", "loaded")
    /\ Return(PyNone)
    /\ UNCHANGED <<self, uart, dev, op, obs>>

\* file_name(n): `self.files[n]`, False on IndexError
file_name ==
    /\ AtPc("file_name", "start")
    /\ Invoke([Top EXCEPT !.pc = "indexed"], Frame("files", PyNone))
    /\ UNCHANGED <<self, uart, dev, op, obs>>

file_name_indexed ==
    /\ AtPc("file_name", "indexed")
    /\ Return(IF Top.a.n < Len(ret.v) THEN PyBytes(ret.v[Top.a.n + 1])
                             ELSE PyFalse)
    /\ UNCHANGED <<self, uart, dev, op, obs>>

(***************************************************************************)
(* The public operations, called between operations by the owner of the    *)
(* instance.  Volume targets are explored near the board's level and near  *)
(* the ends of the range; enumeration is explored from a low level.        *)
(***************************************************************************)
Abs(x) == IF x < 0 THEN 0 - x ELSE x
Reach == VOL_STEP * MaxWalk
InBand(v) == v <= MIN_VOL + Reach \/ v >= MAX_VOL - Reach
TargetOk(t) == InBand(Clamp(t)) /\ Abs(Clamp(t) - dev.vol) <= Reach
Near == {t \in (dev.vol - Reach)..(dev.vol + Reach) : MIN_VOL <= t /\ t <= MAX_VOL}
Targets == {t \in {-5, 1000} \cup Near : TargetOk(t)}
StepOk(delta) == InBand(Clamp(dev.vol + delta))
ProbeOk == dev.vol <= MIN_VOL + Reach

PlayArgs == {PyInt(i) : i \in 0..MaxTracks} \cup {PyBytes(TrackName(0))}

Call(name, arg) ==
    /\ stack = <<>>
    /\ op = Idle
    /\ op' = [name |-> name, arg |-> arg]
    /\ stack' = <<Frame(name, arg)>>
    /\ result' = [how |-> "running"]
    /\ UNCHANGED <<self, uart, dev, ret, obs>>

CallPlay == \E track \in PlayArgs : Call("play", [track |-> track])
CallPlayNow == \E track \in PlayArgs : Call("play_now", [track |-> track])
CallStop == Call("stop", PyNone)
CallPause == Call("pause", PyNone)
CallUnpause == Call("unpause", PyNone)
CallTrackTime == Call("track_time", PyNone)
CallTrackSize == Call("track_size", PyNone)
CallReset == Call("reset", PyNone)
CallVolGet ==
    /\ self.cur_vol.t = "None" => StepOk(0 - VOL_STEP)
    /\ Call("vol_get", PyNone)
CallVolSet ==
    \E t \in Targets :
        /\ self.cur_vol.t = "None" => StepOk(0 - VOL_STEP)
        /\ Call("vol_set", [new_vol |-> PyInt(t)])
CallVolUp ==
    \E vol \in {PyNone} \cup {PyInt(t) : t \in Targets} :
        StepOk(VOL_STEP) /\ Call("vol_up", [vol |-> vol])
CallVolDown ==
    \E vol \in {PyNone} \cup {PyInt(t) : t \in Targets} :
        StepOk(0 - VOL_STEP) /\ Call("vol_down", [vol |-> vol])
CallFiles == ProbeOk /\ Call("files", PyNone)
CallSizes == ProbeOk /\ Call("sizes", PyNone)
CallLengths == ProbeOk /\ Call("lengths", PyNone)
CallDelFiles ==
    /\ stack = <<>>
    /\ op = Idle
    /\ self.files.t # "None"
    /\ self' = del_files(self)
    /\ UNCHANGED <<uart, dev, stack, ret, op, result, obs>>
CallUseAltGetFiles ==
    \E now \in BOOLEAN :
        /\ now => ProbeOk
        /\ Call("use_alt_get_files", [now |-> now])
CallFileName == \E n \in 0..MaxTracks : ProbeOk /\ Call("file_name", [n |-> n])
CallTrackNum ==
    \E i \in 0..MaxTracks :
        /\ stack = <<>>
        /\ op = Idle
        /\ op' = [name |-> "track_num", arg |-> [file_name |-> TrackName(i)]]
        /\ result' = [how |-> "return", v |-> track_num(self, TrackName(i))]
        /\ UNCHANGED <<self, uart, dev, stack, ret, obs>>

(***************************************************************************)
(* The instance after __init__(uart_tx, uart_rx, rst_pin, vol=...,         *)
(* orig_get_files=...): with vol=None nothing was sent and the level is    *)
(* unknown; with a level given, the board was stepped to it and answered.  *)
(***************************************************************************)
LowLevels == {MIN_VOL + VOL_STEP * k : k \in 0..MaxWalk}
InitLevels == LowLevels \cup {MAX_VOL}

Init ==
    /\ \E n \in 0..MaxTracks, level \in InitLevels, healthy \in BOOLEAN :
         dev = [vol |-> level, cur |-> -1, n |-> n, faults |-> 0, healthy |-> healthy]
    /\ \E rst \in BOOLEAN, orig \in BOOLEAN, vol \in {PyNone, PyInt(dev.vol)} :
         self = [files |-> PyNone, sizes |-> PyNone, lengths |-> PyNone, track |-> <<>>,
                 cur_vol |-> vol, cur_track |-> PyNone, reset_attempted |-> FALSE,
                 sb_rst |-> rst,
                 get_files |-> IF orig THEN "get_files" ELSE "get_files_alt"]
    /\ uart = <<>>
    /\ stack = <<>>
    /\ ret = PyNone
    /\ op = Idle
    /\ result = [how |-> "none"]
    /\ obs = NoObs

ChannelSteps == send_simple \/ send_simple_retry \/ send_simple_tail
ResetSteps == reset \/ reset_done \/ vol_set \/ vol_get \/ vol_set_cmp_up \/ vol_set_cmp_down
VolumeSteps ==
    \/ vol_get_seeded \/ vol_set_done
    \/ vol_up \/ vol_up_single \/ vol_up_step
    \/ vol_down \/ vol_down_single \/ vol_down_step
PlaybackSteps ==
    \/ play \/ play_sent \/ play_now \/ play_now_stopped \/ play_now_played
    \/ stop \/ stop_sent \/ pause \/ unpause \/ pause_sent
    \/ track_time \/ track_time_sent \/ track_size \/ track_size_sent
CatalogSteps ==
    \/ get_files \/ get_files_alt \/ get_files_alt_init \/ get_files_alt_stopped
    \/ get_files_alt_muted \/ get_files_alt_probed \/ get_files_alt_timed
    \/ get_files_alt_sized \/ get_files_alt_restored
    \/ files \/ sizes \/ lengths \/ catalog_loaded
    \/ use_alt_get_files \/ use_alt_get_files_loaded
    \/ file_name \/ file_name_indexed
    \/ stop \/ stop_sent \/ track_time \/ track_time_sent \/ track_size \/ track_size_sent

\* the command channel, the reset controller and playback
Next ==
    \/ CallPlay \/ CallPlayNow \/ CallStop \/ CallPause \/ CallUnpause
    \/ CallTrackTime \/ CallTrackSize \/ CallReset
    \/ ChannelSteps \/ ResetSteps \/ PlaybackSteps
    \/ Finish
EndLevels == Init /\ dev.vol \in {MIN_VOL, MAX_VOL}
Spec == EndLevels /\ [][Next]_vars

\* the volume controller, with a command and the reset beside it
VolumeNext ==
    \/ CallVolGet \/ CallVolSet \/ CallVolUp \/ CallVolDown
    \/ CallReset \/ CallTrackTime \/ CallPause
    \/ ChannelSteps \/ ResetSteps \/ VolumeSteps
    \/ track_time \/ track_time_sent \/ pause \/ pause_sent
    \/ Finish
VolumeInit == Init /\ dev.n = 0 /\ self.get_files = "get_files_alt"
VolumeSpec == VolumeInit /\ [][VolumeNext]_vars
\* the driver is synchronous: an operation that was called runs on
\* from the lowest level, on a board that may fail, without a reset line
SetVolumeNext ==
    \/ CallVolSet
    \/ ChannelSteps \/ reset
    \/ vol_set \/ vol_get \/ vol_set_cmp_up \/ vol_set_cmp_down
    \/ vol_get_seeded \/ vol_set_done \/ vol_up \/ vol_up_step
    \/ vol_down \/ vol_down_single \/ vol_down_step
    \/ Finish
SetVolumeInit == VolumeInit /\ dev.vol = MIN_VOL /\ ~dev.healthy /\ ~self.sb_rst
SetVolumeFairSpec == SetVolumeInit /\ [][SetVolumeNext]_vars /\ WF_vars(SetVolumeNext)

\* the track catalog
CatalogNext ==
    \/ CallFiles \/ CallSizes \/ CallLengths \/ CallDelFiles
    \/ CallUseAltGetFiles \/ CallFileName \/ CallTrackNum
    \/ ChannelSteps \/ ResetSteps \/ CatalogSteps
    \/ vol_get_seeded \/ vol_set_done \/ vol_up \/ vol_up_step
    \/ vol_down \/ vol_down_single \/ vol_down_step
    \/ Finish
CatalogInit == Init /\ dev.vol \in LowLevels
CatalogSpec == CatalogInit /\ [][CatalogNext]_vars

(***************************************************************************)
(* Properties.                                                             *)
(***************************************************************************)
\* the outermost _send_simple of the last command has ended
SendOver == obs.sent > 0 /\ ~InSend
\* reset() has just returned to the caller of the driver or to _send_simple
ResetReturned == (op.name = "reset" /\ stack = <<>>) \/ AtPc("send_simple", "retry")
\* reset() has just returned, or has just raised
ResetEnded == ResetReturned \/ (stack = <<>> /\ obs.reset.out = "raise")

\* C1: within one outermost _send_simple the reset controller is invoked at
\* most once and the command is written at most twice, the second time only
\* after the reset; a retried send that fails starts no second reset and no
\* third send.
RetryBound == obs.resets <= 1 /\ obs.sent <= 1 + obs.resets
\* the retried send has failed too, and the command has returned
RetriedSendFailed ==
    SendOver /\ obs.sent = 2 /\ obs.resets = 1 /\ obs.out = "failed"

\* C2: with a reset line configured, a command whose response read timed out
\* once and that was answered normally afterwards has completed after exactly
\* one reset; a command all of whose reads timed out has returned the failure
\* value after exactly one reset.
RecoversOnce ==
    (SendOver /\ self.sb_rst /\ ~obs.garbled /\ obs.timeouts >= 1) =>
        /\ obs.resets = 1
        /\ obs.out = IF obs.answered /\ obs.timeouts = 1 THEN "answered" ELSE "failed"

\* C3: no public operation ends by raising an exception when the board
\* leaves a command unanswered, stays silent after the reset pulse or sends a
\* malformed line.
NeverRaises == result.how # "raise"

\* C4: setting the volume eventually returns, whatever the board does.
SetVolumeReturns == (op.name = "vol_set") ~> (stack = <<>>)

\* C5: on a board that answers every command, set_volume(target) ends with
\* the cached volume inside [MIN_VOL, MAX_VOL] and less than one step away
\* from the clamped target; set_volume(1000) ends at 204 and set_volume(-5)
\* at 0.
SetVolumeReaches ==
    (dev.healthy /\ op.name = "vol_set" /\ stack = <<>> /\ result.how = "return") =>
        /\ self.cur_vol.t = "int"
        /\ MIN_VOL <= self.cur_vol.v /\ self.cur_vol.v <= MAX_VOL
        /\ Abs(self.cur_vol.v - Clamp(op.arg.new_vol.v)) < VOL_STEP

\* C6: when reset() has returned true, current_track is unset and the cached
\* volume is the one the session had when reset() was called.
ResetKeepsVolume ==
    (ResetReturned /\ obs.reset.out = "true") =>
        /\ self.cur_track = PyNone
        /\ self.cur_vol = obs.reset.pre.self.cur_vol
\* reset() has returned true in a session that had a track and a known volume
ResetClearedTrack ==
    /\ ResetReturned
    /\ obs.reset.out = "true"
    /\ obs.reset.pre.self.cur_track # PyNone
    /\ obs.reset.pre.self.cur_vol # PyNone

\* C7: a reset() that pulsed the line and did not succeed has returned false,
\* and current_volume, current_track and the catalog are as they were.
FailedResetReturnsFalse ==
    (ResetEnded /\ obs.reset.io /\ obs.reset.out # "true") =>
        /\ obs.reset.out = "false"
        /\ self.cur_vol = obs.reset.pre.self.cur_vol
        /\ self.cur_track = obs.reset.pre.self.cur_track
        /\ self.files = obs.reset.pre.self.files
        /\ self.sizes = obs.reset.pre.self.sizes
        /\ self.lengths = obs.reset.pre.self.lengths
        /\ self.track = obs.reset.pre.self.track

\* C8: without a reset line, reset() has returned false, has neither read
\* nor written the UART nor reached the board, and the session is as it was,
\* also when _send_simple called it to recover a command.
NoResetLineNoEffect ==
    (ResetReturned /\ ~self.sb_rst) =>
        /\ obs.reset.out = "false"
        /\ ~obs.reset.io
        /\ self = obs.reset.pre.self
        /\ uart = obs.reset.pre.uart
        /\ dev = obs.reset.pre.dev
\* the recovery of a command has called reset() on a driver without the line
RecoveryWithoutLine == AtPc("send_simple", "retry") /\ ~self.sb_rst

\* C9: on a board that answers every command and holds dev.n tracks, the
\* probe by playback has played exactly the indices 0..dev.n, has registered
\* dev.n tracks, and ends with the board at the level it had when the probe
\* started.
ProbeRestoresVolume ==
    (dev.healthy /\ AtPc("get_files_alt", "restored")) =>
        /\ Top.a.plays = [k \in 1..(dev.n + 1) |-> k - 1]
        /\ Len(self.files.v) = dev.n
        /\ dev.vol = obs.level

\* C10: once the strategy has been switched, no catalog view holds data of
\* the catalog built before the switch.
SwitchDiscardsCatalog ==
    (op.name = "use_alt_get_files" /\ ~op.arg.now /\ stack = <<>>) =>
        /\ self.files = PyNone
        /\ self.sizes = PyNone
        /\ self.lengths = PyNone
        /\ self.track = <<>>

\* C11: in every catalog, whichever strategy built it, the name at index i
\* of files is mapped back to i by track_num, for every i below the number
\* of names registered.
IndexNameBijection ==
    self.files.t = "list" =>
        \A i \in 0..(Len(self.files.v) - 1) :
            track_num(self, self.files.v[i + 1]) = PyInt(i)
\* file_name(n) has returned the last name of a catalog of MaxTracks names
LastNameReturned ==
    /\ op.name = "file_name"
    /\ stack = <<>>
    /\ result.how = "return"
    /\ result.v.t = "bytes"
    /\ Len(self.files.v) = MaxTracks
    /\ op.arg.n = MaxTracks - 1

\* C12: on a board that answers the command, play(i) for an index the board
\* holds has returned True with _cur_track = i, and play(j) for an index
\* beyond the board's tracks has returned False with _cur_track as it was
\* when play() was called.
PlayRecordsTrack ==
    (op.name = "play" /\ stack = <<>> /\ ~obs.faulty /\ op.arg.track.t = "int") =>
        IF op.arg.track.v < dev.n
        THEN result = [how |-> "return", v |-> PyTrue] /\ self.cur_track = op.arg.track
        ELSE result = [how |-> "return", v |-> PyFalse] /\ self.cur_track = obs.track
\* play(j) beyond the board's tracks has returned while a track was current
PlayBeyondRefused ==
    /\ op.name = "play"
    /\ stack = <<>>
    /\ ~obs.faulty
    /\ op.arg.track.t = "int"
    /\ op.arg.track.v >= dev.n
    /\ obs.track.t = "int"

\* the answers of the protocol to 't' and 's', as the driver should return them
BoardTime == PyTuple(0, IF dev.cur >= 0 THEN TrackSecs(dev.cur) ELSE 0)
BoardSize ==
    PyTuple(IF dev.cur >= 0 THEN TrackSize(dev.cur) ELSE 0,
            IF dev.cur >= 0 THEN TrackSize(dev.cur) ELSE 0)

\* C13: track_time() and track_size() have returned (-1, -1) when every read
\* timed out, False when the board's line has the wrong length (after one
\* write and no reset), and the two numbers of the board's line otherwise.
TrackQueryShape ==
    (op.name \in {"track_time", "track_size"} /\ stack = <<>>) =>
        /\ result.how = "return"
        /\ (obs.timeouts >= 1 /\ ~obs.answered /\ ~obs.garbled) =>
               result.v = PyTuple(-1, -1)
        /\ (obs.garbled /\ obs.timeouts = 0) =>
               result.v = PyFalse /\ obs.sent = 1 /\ obs.resets = 0
        /\ ~obs.faulty =>
               result.v = IF op.name = "track_time" THEN BoardTime ELSE BoardSize

\* an access to files, sizes or lengths is about to enumerate
AccessEnumerates ==
    /\ op.name \in {"files", "sizes", "lengths"}
    /\ (AtPc("get_files", "start") \/ AtPc("get_files_alt", "start"))

\* C14: an access to files, sizes or lengths enumerates only when no catalog
\* generation exists, and then with the active strategy; while a generation
\* exists every access is served from the cache and sends no command.
AccessServedFromCache ==
    AccessEnumerates =>
        /\ self.files = PyNone
        /\ Top.fn = self.get_files

\* C15: stop() has returned True when the board's response started with 'q',
\* with the acknowledgement line that follows read and discarded, and False
\* when no response was got, with nothing further read.
StopReportsAck ==
    (op.name = "stop" /\ stack = <<>> /\ result.how = "return") =>
        /\ (obs.out = "answered" /\ ~obs.garbled) => (result.v = PyTrue /\ uart = <<>>)
        /\ obs.out = "failed" => result.v = PyFalse

\* C16: a read of the volume returns the cached level, and a read that had to
\* seed it (the only read that sends a command, one volume-down step) has
\* cached the level the board is at, which is the level the board reports.
VolumeReadSeeds ==
    (op.name = "vol_get" /\ stack = <<>> /\ result.how = "return") =>
        /\ result.v = self.cur_vol
        /\ obs.sent > 0 => self.cur_vol = PyInt(dev.vol)

\* C17: a command whose response was read leaves _reset_attempted cleared,
\* and every command one of whose response reads timed out has had its own
\* reset, whatever the commands before it did.
EachTimeoutResets ==
    SendOver =>
        /\ obs.out = "answered" => ~self.reset_attempted
        /\ obs.timeouts >= 1 => obs.resets = 1

\* C18: when reset() has returned true in a session whose volume is known,
\* the board, which rebooted to its default level, is at the cached level
\* again.
ResetReappliesVolume ==
    (ResetReturned /\ obs.reset.out = "true" /\ self.cur_vol.t = "int") =>
        self.cur_vol.v = dev.vol

\* C19: the lengths and sizes recorded by an enumeration are never negative:
\* a time or size query of the probe that got a malformed response or none
\* has recorded 0.
RecordedNeverNegative ==
    /\ self.lengths.t = "list" =>
           \A i \in 1..Len(self.lengths.v) : self.lengths.v[i] >= 0
    /\ self.sizes.t = "list" =>
           \A i \in 1..Len(self.sizes.v) : self.sizes.v[i] >= 0

\* C20: whenever no public operation is running, the cached volume is unknown
\* or an even integer from MIN_VOL to MAX_VOL.
CachedVolumeInDomain ==
    stack = <<>> =>
        \/ self.cur_vol = PyNone
        \/ /\ self.cur_vol.t = "int"
           /\ MIN_VOL <= self.cur_vol.v /\ self.cur_vol.v <= MAX_VOL
           /\ self.cur_vol.v % VOL_STEP = 0

\* C21: the line _send_simple takes as the response of a command is the line
\* the board sent as its response after the command was written: what an
\* earlier exchange had left in the buffer was dropped before the write, and
\* the echo of a command of more than one character was read and discarded.
ResponseIsFresh == obs.fresh
\* a play command was answered after a reset whose banner was left half read
StaleInputDrained ==
    /\ op.name \in {"play", "play_now"}
    /\ obs.drained > 0
    /\ obs.sent = 2
    /\ obs.out = "answered"
    /\ obs.garbled
    /\ obs.answered

====
